---- MODULE Spec2Model ----
(***************************************************************************)
(* Model of the chat front end of the Multi-Agent MCP System               *)
(* (multi-agent-gui/src/components/ChatInterface.jsx): the keyword intent  *)
(* classifier analyzeIntent, the dispatcher sendToAgent/uploadFileToAgent, *)
(* the response formatter generateAgentResponse and the React session      *)
(* state (messages, inputValue, isLoading, selectedFile) driven by the UI  *)
(* event handlers.                                                         *)
(*                                                                         *)
(* JavaScript strings are TLA+ strings; Len, SubSeq and \o act on them     *)
(* character by character.                                                 *)
(***************************************************************************)
EXTENDS Integers, Sequences, FiniteSets, TLC

VARIABLES
    messages,       \* useState: the transcript (line 60)
    inputValue,     \* useState: content of the text field (line 69)
    isLoading,      \* useState: loading flag (line 70)
    selectedFile,   \* useState: staged file or Null (line 71)
    inflight,       \* suspended handleSendMessage calls (awaiting sendToAgent)
    requests,       \* log of the fetch() calls issued so far
    responses,      \* log of the settled calls and of what the network answered
    now,            \* the value Date.now() returns
    lastEvent,      \* the last UI event or completion that ran
    pickedFile,     \* event.target.files[0] when lastEvent is a file selection
    intentInput,    \* classifier harness: argument of analyzeIntent
    intentResult,   \* classifier harness: value returned for intentInput
    recasedInput,   \* classifier harness: intentInput with letter case changed
    recasedResult,  \* classifier harness: value returned for recasedInput
    formatCalls,    \* formatter harness: arguments of two calls
    formatTexts     \* formatter harness: values returned so far

sessionVars == <<messages, inputValue, isLoading, selectedFile, inflight,
                 requests, responses, now, lastEvent, pickedFile>>
intentVars == <<intentInput, intentResult, recasedInput, recasedResult>>
formatVars == <<formatCalls, formatTexts>>
harnessVars == <<intentVars, formatVars>>
vars == <<messages, inputValue, isLoading, selectedFile, inflight, requests,
          responses, now, lastEvent, pickedFile, intentInput, intentResult,
          recasedInput, recasedResult, formatCalls, formatTexts>>

(***************************************************************************)
(* Bounds of the model.                                                    *)
(***************************************************************************)
\* accepted send actions per behaviour
MaxSends == 2
\* fragments joined into one classifier input
MaxFrags == 3
\* milliseconds the clock may advance (SpecClock)
MaxTicks == 2

(***************************************************************************)
(* JavaScript string built-ins used by the component.                      *)
(***************************************************************************)
CharAt(s, i) == SubSeq(s, i, i)

\* the lower-case letter of every upper-case ASCII letter
LowerOf ==
    ("A" :> "a") @@ ("B" :> "b") @@ ("C" :> "c") @@ ("D" :> "d") @@
    ("E" :> "e") @@ ("F" :> "f") @@ ("G" :> "g") @@ ("H" :> "h") @@
    ("I" :> "i") @@ ("J" :> "j") @@ ("K" :> "k") @@ ("L" :> "l") @@
    ("M" :> "m") @@ ("N" :> "n") @@ ("O" :> "o") @@ ("P" :> "p") @@
    ("Q" :> "q") @@ ("R" :> "r") @@ ("S" :> "s") @@ ("T" :> "t") @@
    ("U" :> "u") @@ ("V" :> "v") @@ ("W" :> "w") @@ ("X" :> "x") @@
    ("Y" :> "y") @@ ("Z" :> "z")

toLowerCaseChar(c) == IF c \in DOMAIN LowerOf THEN LowerOf[c] ELSE c

RECURSIVE toLowerCaseFrom(_, _)
toLowerCaseFrom(s, i) ==
    IF i > Len(s) THEN ""
    ELSE toLowerCaseChar(CharAt(s, i)) \o toLowerCaseFrom(s, i + 1)

\* a toLowerCase that leaves the text as it is
toLowerCaseIdentity(s) == s

\* String.prototype.toLowerCase on ASCII text
toLowerCase(s) == toLowerCaseFrom(s, 1)

\* String.prototype.includes
includes(s, k) ==
    \E i \in 1..(Len(s) - Len(k) + 1) : SubSeq(s, i, i + Len(k) - 1) = k

(***************************************************************************)
(* analyzeIntent: the cascade of keyword tests, in source order.           *)
(***************************************************************************)
\* the cascade with the Agent 2 block tested before the Agent 1 block
analyzeIntentKnowledgeFirst(message) ==
    LET lowerMessage == toLowerCase(message) IN
    IF \/ includes(lowerMessage, "knowledge")
       \/ includes(lowerMessage, "document")
       \/ includes(lowerMessage, "search")
       \/ includes(lowerMessage, "find")
       \/ includes(lowerMessage, "what were")
       \/ includes(lowerMessage, "last")
       \/ includes(lowerMessage, "process for")
       \/ includes(lowerMessage, "how to")
       \/ includes(lowerMessage, "procedure")
       \/ includes(lowerMessage, "incorporated")
       \/ includes(lowerMessage, "added to")
    THEN "agent2"
    ELSE IF \/ includes(lowerMessage, "upload")
            \/ includes(lowerMessage, "scrape")
            \/ includes(lowerMessage, "collect")
            \/ includes(lowerMessage, "file")
            \/ includes(lowerMessage, "attachment")
            \/ includes(lowerMessage, "download")
            \/ includes(lowerMessage, "extract data")
    THEN "agent1"
    ELSE IF \/ includes(lowerMessage, "how many")
            \/ includes(lowerMessage, "sold")
            \/ includes(lowerMessage, "database")
            \/ includes(lowerMessage, "analytics")
            \/ includes(lowerMessage, "report")
            \/ includes(lowerMessage, "count")
            \/ includes(lowerMessage, "statistics")
            \/ includes(lowerMessage, "backup")
            \/ includes(lowerMessage, "last week")
            \/ includes(lowerMessage, "last month")
    THEN "agent3"
    ELSE IF \/ includes(lowerMessage, "transform")
            \/ includes(lowerMessage, "convert")
            \/ includes(lowerMessage, "bestbuy")
            \/ includes(lowerMessage, "walmart")
            \/ includes(lowerMessage, "format")
            \/ includes(lowerMessage, "mapping")
            \/ includes(lowerMessage, "template")
    THEN "agent4"
    ELSE "orchestrator"

\* the cascade with the Agent 4 test on "format" dropped and a fall-through
\* to the Data Transformer instead of the orchestrator
analyzeIntentDefaultTransformer(message) ==
    LET lowerMessage == toLowerCase(message) IN
    IF \/ includes(lowerMessage, "upload")
       \/ includes(lowerMessage, "scrape")
       \/ includes(lowerMessage, "collect")
       \/ includes(lowerMessage, "file")
       \/ includes(lowerMessage, "attachment")
       \/ includes(lowerMessage, "download")
       \/ includes(lowerMessage, "extract data")
    THEN "agent1"
    ELSE IF \/ includes(lowerMessage, "knowledge")
            \/ includes(lowerMessage, "document")
            \/ includes(lowerMessage, "search")
            \/ includes(lowerMessage, "find")
            \/ includes(lowerMessage, "what were")
            \/ includes(lowerMessage, "last")
            \/ includes(lowerMessage, "process for")
            \/ includes(lowerMessage, "how to")
            \/ includes(lowerMessage, "procedure")
            \/ includes(lowerMessage, "incorporated")
            \/ includes(lowerMessage, "added to")
    THEN "agent2"
    ELSE IF \/ includes(lowerMessage, "how many")
            \/ includes(lowerMessage, "sold")
            \/ includes(lowerMessage, "database")
            \/ includes(lowerMessage, "analytics")
            \/ includes(lowerMessage, "report")
            \/ includes(lowerMessage, "count")
            \/ includes(lowerMessage, "statistics")
            \/ includes(lowerMessage, "backup")
            \/ includes(lowerMessage, "last week")
            \/ includes(lowerMessage, "last month")
    THEN "agent3"
    ELSE "agent4"

\* the cascade without the keyword "last" in the Agent 2 block
analyzeIntentWithoutLast(message) ==
    LET lowerMessage == toLowerCase(message) IN
    \* Agent 1: Web Scraper & Data Collector
    IF \/ includes(lowerMessage, "upload")
       \/ includes(lowerMessage, "scrape")
       \/ includes(lowerMessage, "collect")
       \/ includes(lowerMessage, "file")
       \/ includes(lowerMessage, "attachment")
       \/ includes(lowerMessage, "download")
       \/ includes(lowerMessage, "extract data")
    THEN "agent1"
    \* Agent 2: Knowledge Base Creator
    ELSE IF \/ includes(lowerMessage, "knowledge")
            \/ includes(lowerMessage, "document")
            \/ includes(lowerMessage, "search")
            \/ includes(lowerMessage, "find")
            \/ includes(lowerMessage, "what were")
            \/ includes(lowerMessage, "process for")
            \/ includes(lowerMessage, "how to")
            \/ includes(lowerMessage, "procedure")
            \/ includes(lowerMessage, "incorporated")
            \/ includes(lowerMessage, "added to")
    THEN "agent2"
    \* Agent 3: Database Manager
    ELSE IF \/ includes(lowerMessage, "how many")
            \/ includes(lowerMessage, "sold")
            \/ includes(lowerMessage, "database")
            \/ includes(lowerMessage, "analytics")
            \/ includes(lowerMessage, "report")
            \/ includes(lowerMessage, "count")
            \/ includes(lowerMessage, "statistics")
            \/ includes(lowerMessage, "backup")
            \/ includes(lowerMessage, "last week")
            \/ includes(lowerMessage, "last month")
    THEN "agent3"
    \* Agent 4: Data Transformer
    ELSE IF \/ includes(lowerMessage, "transform")
            \/ includes(lowerMessage, "convert")
            \/ includes(lowerMessage, "bestbuy")
            \/ includes(lowerMessage, "walmart")
            \/ includes(lowerMessage, "format")
            \/ includes(lowerMessage, "mapping")
            \/ includes(lowerMessage, "template")
    THEN "agent4"
    \* Default to orchestrator for general queries
    ELSE "orchestrator"

analyzeIntent(message) ==
    LET lowerMessage == toLowerCase(message) IN
    \* Agent 1: Web Scraper & Data Collector
    IF \/ includes(lowerMessage, "upload")
       \/ includes(lowerMessage, "scrape")
       \/ includes(lowerMessage, "collect")
       \/ includes(lowerMessage, "file")
       \/ includes(lowerMessage, "attachment")
       \/ includes(lowerMessage, "download")
       \/ includes(lowerMessage, "extract data")
    THEN "agent1"
    \* Agent 2: Knowledge Base Creator
    ELSE IF \/ includes(lowerMessage, "knowledge")
            \/ includes(lowerMessage, "document")
            \/ includes(lowerMessage, "search")
            \/ includes(lowerMessage, "find")
            \/ includes(lowerMessage, "what were")
            \/ includes(lowerMessage, "last")
            \/ includes(lowerMessage, "process for")
            \/ includes(lowerMessage, "how to")
            \/ includes(lowerMessage, "procedure")
            \/ includes(lowerMessage, "incorporated")
            \/ includes(lowerMessage, "added to")
    THEN "agent2"
    \* Agent 3: Database Manager
    ELSE IF \/ includes(lowerMessage, "how many")
            \/ includes(lowerMessage, "sold")
            \/ includes(lowerMessage, "database")
            \/ includes(lowerMessage, "analytics")
            \/ includes(lowerMessage, "report")
            \/ includes(lowerMessage, "count")
            \/ includes(lowerMessage, "statistics")
            \/ includes(lowerMessage, "backup")
            \/ includes(lowerMessage, "last week")
            \/ includes(lowerMessage, "last month")
    THEN "agent3"
    \* Agent 4: Data Transformer
    ELSE IF \/ includes(lowerMessage, "transform")
            \/ includes(lowerMessage, "convert")
            \/ includes(lowerMessage, "bestbuy")
            \/ includes(lowerMessage, "walmart")
            \/ includes(lowerMessage, "format")
            \/ includes(lowerMessage, "mapping")
            \/ includes(lowerMessage, "template")
    THEN "agent4"
    \* Default to orchestrator for general queries
    ELSE "orchestrator"

(***************************************************************************)
(* Classifier harness: analyzeIntent applied to bounded inputs.            *)
(***************************************************************************)
Pending == "pending"

\* the keyword literals of the four blocks of analyzeIntent
Agent1Words == {"upload", "scrape", "collect", "file", "attachment",
                "download", "extract data"}
Agent2Words == {"knowledge", "document", "search", "find", "what were",
                "last", "process for", "how to", "procedure", "incorporated",
                "added to"}
Agent3Words == {"how many", "sold", "database", "analytics", "report",
                "count", "statistics", "backup", "last week", "last month"}
Agent4Words == {"transform", "convert", "bestbuy", "walmart", "format",
                "mapping", "template"}

\* words that carry no keyword
NeutralWords == {"hello", "laptops", "3", "Hello", "status?"}

\* the routing examples of the README and of the input placeholder
UploadExample == "Upload this file to knowledge base"
DocumentsExample == "What were the last 3 documents?"
LaptopsExample == "How many laptops were sold last week?"
TransformExample == "Transform BestBuy data to Walmart format"

MixedCaseWords == {"UPLOAD FILE", "Last Month", "BestBuy", "How To",
                   UploadExample, DocumentsExample, LaptopsExample,
                   TransformExample}

Vocabulary == Agent1Words \cup Agent2Words \cup Agent3Words \cup Agent4Words
                \cup NeutralWords \cup MixedCaseWords

\* what a phrase is continued with: a keyword of each block, the two
\* database keywords that contain "last", a neutral and a mixed-case word
Continuations == {"file", "last", "sold", "format", "last week", "hello",
                  "Search"}

\* the texts made of at most n fragments separated by one space: any
\* vocabulary entry, then continuations
RECURSIVE Phrases(_)
Phrases(n) ==
    IF n = 0 THEN {""}
    ELSE IF n = 1 THEN {""} \cup Vocabulary
    ELSE LET shorter == Phrases(n - 1) IN
         shorter \cup {p \o " " \o w : p \in shorter \ {""},
                                        w \in Continuations}

toUpperCaseChar(c) ==
    IF \E u \in DOMAIN LowerOf : LowerOf[u] = c
    THEN CHOOSE u \in DOMAIN LowerOf : LowerOf[u] = c
    ELSE c

\* s from position i on, with every letter in upper case ("upper"), in lower
\* case ("lower") or in upper case at the odd positions only ("alternate")
RECURSIVE recaseFrom(_, _, _)
recaseFrom(s, i, mode) ==
    IF i > Len(s) THEN ""
    ELSE (IF mode = "upper" \/ (mode = "alternate" /\ i % 2 = 1)
          THEN toUpperCaseChar(CharAt(s, i))
          ELSE toLowerCaseChar(CharAt(s, i))) \o recaseFrom(s, i + 1, mode)

RecaseModes == {"upper", "lower", "alternate"}

recase(s, mode) == recaseFrom(s, 1, mode)

(***************************************************************************)
(* Session state of the component.                                         *)
(***************************************************************************)
Null == [null |-> TRUE]

\* first millisecond of the session
Epoch == 1000

WelcomeText == "Welcome to the Multi-Agent MCP System! I can help you with data collection, knowledge management, database operations, and data transformation. What would you like to do?"

\* a greeting that carries a success flag and a payload
InitialMessagesWithSuccess ==
    <<[id |-> 1, type |-> "system", content |-> WelcomeText,
       timestamp |-> Epoch, agent |-> "orchestrator", success |-> TRUE,
       data |-> Null]>>

\* a transcript that starts empty
InitialMessagesEmpty == <<>>

\* the initial value of messages (lines 60-68)
InitialMessages ==
    <<[id |-> 1, type |-> "system", content |-> WelcomeText,
       timestamp |-> Epoch, agent |-> "orchestrator"]>>

SessionInit ==
    /\ messages = InitialMessages
    /\ inputValue = ""
    /\ isLoading = FALSE
    /\ selectedFile = Null
    /\ inflight = <<>>
    /\ requests = <<>>
    /\ responses = <<>>
    /\ now = Epoch
    /\ lastEvent = "mount"
    /\ pickedFile = Null

(***************************************************************************)
(* Specification of the classifier harness: intentInput is any phrase,     *)
(* Classify applies analyzeIntent to it, Recase applies analyzeIntent to   *)
(* the same text with its letter case changed.                             *)
(***************************************************************************)
\* no call of the formatter harness is set up
FormatIdle ==
    /\ formatCalls = <<>>
    /\ formatTexts = <<>>

IntentInit ==
    /\ intentInput \in Phrases(MaxFrags)
    /\ intentResult = Pending
    /\ recasedInput = intentInput
    /\ recasedResult = Pending

Classify ==
    /\ intentResult = Pending
    /\ intentResult' = analyzeIntent(intentInput)
    /\ UNCHANGED <<intentInput, recasedInput, recasedResult>>
    /\ UNCHANGED formatVars
    /\ UNCHANGED sessionVars

Recase ==
    /\ intentResult # Pending
    /\ recasedResult = Pending
    /\ \E mode \in RecaseModes :
          /\ recasedInput' = recase(intentInput, mode)
          /\ recasedResult' = analyzeIntent(recase(intentInput, mode))
    /\ UNCHANGED <<intentInput, intentResult>>
    /\ UNCHANGED formatVars
    /\ UNCHANGED sessionVars

InitClassify == SessionInit /\ IntentInit /\ FormatIdle

NextClassify == Classify \/ Recase

SpecClassify == InitClassify /\ [][NextClassify]_vars

(***************************************************************************)
(* Claims about the classifier (checked under SpecClassify).               *)
(***************************************************************************)
\* the ordered (target, keyword set) table
Rules == <<[target |-> "agent1", keywords |-> Agent1Words],
           [target |-> "agent2", keywords |-> Agent2Words],
           [target |-> "agent3", keywords |-> Agent3Words],
           [target |-> "agent4", keywords |-> Agent4Words]>>

Targets == {"agent1", "agent2", "agent3", "agent4", "orchestrator"}

\* the rules of which some keyword occurs in the lowercased text
MatchingRules(text) ==
    LET lower == recase(text, "lower") IN
    {i \in 1..Len(Rules) : \E k \in Rules[i].keywords : includes(lower, k)}

\* first-match-wins evaluation of the table
FirstMatch(text) ==
    LET matching == MatchingRules(text) IN
    IF matching = {} THEN "orchestrator"
    ELSE Rules[CHOOSE i \in matching : \A j \in matching : i <= j].target

\* C1: analyzeIntent returns the target of the first rule of the ordered
\* table that has a keyword in the lowercased text, and orchestrator when
\* no rule has one.
C1_FirstMatchWins ==
    intentResult # Pending => intentResult = FirstMatch(intentInput)

\* a text matching the rules of agent2, agent3 and agent4 but not agent1
C1_Witness ==
    /\ intentResult = "agent2"
    /\ MatchingRules(intentInput) = {2, 3, 4}

\* C2: every text containing a collector keyword is classified as collector
\* (agent1), whatever other keywords it contains.
C2_CollectorWins ==
    (intentResult # Pending /\ 1 \in MatchingRules(intentInput))
        => intentResult = "agent1"

\* a text with a collector keyword and "last" went to the collector
C2_Witness ==
    /\ intentResult = "agent1"
    /\ includes(intentInput, "upload")
    /\ includes(intentInput, "last")
    /\ MatchingRules(intentInput) = {1, 2, 3}

\* C3: "How many laptops were sold last week?" is classified as database
\* (agent3).
C3_LaptopsToDatabase ==
    (intentInput = LaptopsExample /\ intentResult # Pending)
        => intentResult = "agent3"

\* C4: the routing examples: the upload example goes to agent1, the
\* documents example to agent2 and the transform example to agent4.
C4_RoutingExamples ==
    intentResult # Pending =>
        /\ intentInput = UploadExample => intentResult = "agent1"
        /\ intentInput = DocumentsExample => intentResult = "agent2"
        /\ intentInput = TransformExample => intentResult = "agent4"

\* the transform example has been classified
C4_Witness ==
    /\ intentInput = TransformExample
    /\ intentResult = "agent4"

\* C5: analyzeIntent returns orchestrator for the empty text and for every
\* text without any keyword, and always returns one of the five targets.
C5_DefaultOrchestrator ==
    intentResult # Pending =>
        /\ intentResult \in Targets
        /\ intentInput = "" => intentResult = "orchestrator"
        /\ MatchingRules(intentInput) = {} => intentResult = "orchestrator"

\* a non-empty text without keyword went to the orchestrator
C5_Witness ==
    /\ intentInput # ""
    /\ MatchingRules(intentInput) = {}
    /\ intentResult = "orchestrator"

\* C6: a text and the same text with its letters changed to upper or lower
\* case are classified alike.
C6_CaseInsensitive ==
    recasedResult # Pending => recasedResult = intentResult

\* recasing changed the text and a keyword rule still fired
C6_Witness ==
    /\ recasedResult # Pending
    /\ recasedInput # intentInput
    /\ recasedInput = "UPLOAD FILE"
    /\ intentInput = "upload file"
    /\ recasedResult = "agent1"

(***************************************************************************)
(* Dispatcher and formatter.                                               *)
(***************************************************************************)
Undefined == [undefined |-> TRUE]

AGENT_CONFIGS ==
    [agent1 |-> [name |-> "Web Scraper & Data Collector",
                 color |-> "bg-blue-500",
                 url |-> "https://3dhkilcjlzdj.manus.space"],
     agent2 |-> [name |-> "Knowledge Base Creator",
                 color |-> "bg-green-500",
                 url |-> "https://g8h3ilcv0k7m.manus.space"],
     agent3 |-> [name |-> "Database Manager",
                 color |-> "bg-purple-500",
                 url |-> "https://77h9ikczonwo.manus.space"],
     agent4 |-> [name |-> "Data Transformer",
                 color |-> "bg-orange-500",
                 url |-> "https://lnh8imcj5kwd.manus.space"],
     orchestrator |-> [name |-> "System Orchestrator",
                       color |-> "bg-indigo-500",
                       url |-> "https://mzhyi8cnozj8.manus.space"]]

\* the white space String.prototype.trim removes
WhiteSpace == {" ", "\t", "\n", "\r"}

RECURSIVE trimStart(_)
trimStart(s) ==
    IF s # "" /\ CharAt(s, 1) \in WhiteSpace
    THEN trimStart(SubSeq(s, 2, Len(s)))
    ELSE s

RECURSIVE trimEnd(_)
trimEnd(s) ==
    IF s # "" /\ CharAt(s, Len(s)) \in WhiteSpace
    THEN trimEnd(SubSeq(s, 1, Len(s) - 1))
    ELSE s

\* String.prototype.trim
trim(s) == trimEnd(trimStart(s))

\* JSON.stringify of a string: quotes added, quote and backslash escaped
RECURSIVE jsonEscapeFrom(_, _)
jsonEscapeFrom(s, i) ==
    IF i > Len(s) THEN ""
    ELSE (IF CharAt(s, i) \in {"\"", "\\"} THEN "\\" \o CharAt(s, i)
          ELSE IF CharAt(s, i) = "\n" THEN "\\n"
          ELSE IF CharAt(s, i) = "\t" THEN "\\t"
          ELSE IF CharAt(s, i) = "\r" THEN "\\r"
          ELSE CharAt(s, i)) \o jsonEscapeFrom(s, i + 1)

jsonString(s) == "\"" \o jsonEscapeFrom(s, 1) \o "\""

\* JavaScript truthiness of a string
Truthy(v) == v # ""

\* the canned texts of generateAgentResponse (the emoji and the bullet signs
\* of the laptop block are written in ASCII)
CollectorText == "I've processed your request for data collection. The web scraper is ready to handle file uploads and data extraction tasks."
RecentDocumentsText == "Based on the knowledge base, here are the last 3 documents that were incorporated:\n\n1. Product Specification Guide (added 2 hours ago)\n2. Customer Support Manual (added 1 day ago)\n3. Pricing Guidelines Document (added 2 days ago)\n\nWould you like me to search for specific information within these documents?"
ProcedureText == "I found relevant information about the process you're asking about. Here's what I found in the knowledge base:\n\n**Creating a New Listing Process:**\n1. Gather product information and specifications\n2. Prepare product images and descriptions\n3. Set pricing and inventory levels\n4. Configure shipping and fulfillment options\n5. Review and publish the listing\n\nWould you like more detailed information about any of these steps?"
KnowledgeText == "I've searched the knowledge base for information related to your query. The system is ready to process documents and provide semantic search capabilities."
LaptopSalesText == "Based on the database analytics for last week:\n\n[chart] **Laptop Sales Summary:**\n* Total laptops sold: 247 units\n* Revenue generated: $186,420\n* Top selling model: MacBook Air M2 (67 units)\n* Average selling price: $755\n* Peak sales day: Friday (89 units)\n\nWould you like a more detailed breakdown by model or day?"
AnalyticsText == "Database analytics are available. I can provide sales reports, inventory counts, and performance metrics from the database."
TransformerText == "The data transformer is ready to convert data between different formats. I can help transform product data from BestBuy format to Walmart format, or handle other data mapping tasks."
OrchestratorText == "System status: All agents are operational and ready to assist. I can coordinate complex workflows across multiple agents or help you with system management tasks."
FallbackText == "I've processed your request and the appropriate agent is handling it."

\* a formatter that tests the agent2 branches in the other order
generateAgentResponseProcedureFirst(agentId, message, data) ==
    LET lowerMessage == toLowerCase(message) IN
    CASE agentId = "agent1" -> CollectorText
      [] agentId = "agent2" ->
            IF includes(lowerMessage, "process") \/ includes(lowerMessage, "how to")
            THEN ProcedureText
            ELSE IF includes(lowerMessage, "last") /\ includes(lowerMessage, "document")
            THEN RecentDocumentsText
            ELSE KnowledgeText
      [] agentId = "agent3" ->
            IF includes(lowerMessage, "how many") /\ includes(lowerMessage, "laptop")
            THEN LaptopSalesText
            ELSE AnalyticsText
      [] agentId = "agent4" -> TransformerText
      [] agentId = "orchestrator" -> OrchestratorText
      [] OTHER -> FallbackText

\* a formatter whose agent3 branch tests "laptop" alone
generateAgentResponseLaptopOnly(agentId, message, data) ==
    LET lowerMessage == toLowerCase(message) IN
    CASE agentId = "agent1" -> CollectorText
      [] agentId = "agent2" ->
            IF includes(lowerMessage, "last") /\ includes(lowerMessage, "document")
            THEN RecentDocumentsText
            ELSE IF includes(lowerMessage, "process") \/ includes(lowerMessage, "how to")
            THEN ProcedureText
            ELSE KnowledgeText
      [] agentId = "agent3" ->
            IF includes(lowerMessage, "laptop")
            THEN LaptopSalesText
            ELSE AnalyticsText
      [] agentId = "agent4" -> TransformerText
      [] agentId = "orchestrator" -> OrchestratorText
      [] OTHER -> FallbackText

\* a formatter whose agent1 text shows a field of the payload
generateAgentResponseRendersData(agentId, message, data) ==
    LET lowerMessage == toLowerCase(message) IN
    CASE agentId = "agent1" ->
            IF data # Null /\ "extracted_data" \in DOMAIN data
            THEN CollectorText \o " " \o data.extracted_data
            ELSE CollectorText
      [] agentId = "agent2" ->
            IF includes(lowerMessage, "last") /\ includes(lowerMessage, "document")
            THEN RecentDocumentsText
            ELSE IF includes(lowerMessage, "process") \/ includes(lowerMessage, "how to")
            THEN ProcedureText
            ELSE KnowledgeText
      [] agentId = "agent3" ->
            IF includes(lowerMessage, "how many") /\ includes(lowerMessage, "laptop")
            THEN LaptopSalesText
            ELSE AnalyticsText
      [] agentId = "agent4" -> TransformerText
      [] agentId = "orchestrator" -> OrchestratorText
      [] OTHER -> FallbackText

generateAgentResponse(agentId, message, data) ==
    LET lowerMessage == toLowerCase(message) IN
    CASE agentId = "agent1" -> CollectorText
      [] agentId = "agent2" ->
            IF includes(lowerMessage, "last") /\ includes(lowerMessage, "document")
            THEN RecentDocumentsText
            ELSE IF includes(lowerMessage, "process") \/ includes(lowerMessage, "how to")
            THEN ProcedureText
            ELSE KnowledgeText
      [] agentId = "agent3" ->
            IF includes(lowerMessage, "how many") /\ includes(lowerMessage, "laptop")
            THEN LaptopSalesText
            ELSE AnalyticsText
      [] agentId = "agent4" -> TransformerText
      [] agentId = "orchestrator" -> OrchestratorText
      [] OTHER -> FallbackText

(***************************************************************************)
(* What the network answers to one fetch.  fetch either rejects with an    *)
(* error or resolves to a response with an ok flag; response.json() either *)
(* rejects with a SyntaxError or resolves to the parsed value.             *)
(***************************************************************************)
NetworkErrorText == "Failed to fetch"
SyntaxErrorText == "Unexpected token < in JSON at position 0"
NullPropertyErrorText == "Cannot read properties of null (reading 'extracted_data')"

FetchOutcomes ==
    {[fetch |-> "rejected", error |-> NetworkErrorText],
     [fetch |-> "resolved", ok |-> FALSE],
     [fetch |-> "resolved", ok |-> TRUE, json |-> "rejected",
      error |-> SyntaxErrorText],
     [fetch |-> "resolved", ok |-> TRUE, json |-> "resolved",
      value |-> [extracted_data |-> "text"]],
     [fetch |-> "resolved", ok |-> TRUE, json |-> "resolved",
      value |-> [filename |-> "stored"]],
     [fetch |-> "resolved", ok |-> TRUE, json |-> "resolved",
      value |-> Null]}

\* the request uploadFileToAgent hands to fetch
uploadRequest(file) ==
    [url |-> AGENT_CONFIGS.agent1.url \o "/api/files/upload",
     method |-> "POST",
     body |-> [formData |-> [file |-> file]]]

\* an uploadFileToAgent that does not test response.ok
uploadFileToAgentIgnoresStatus(file, o) ==
    IF o.fetch = "rejected"
    THEN [success |-> FALSE, error |-> o.error]
    ELSE IF o.ok
    THEN IF o.json = "rejected"
         THEN [success |-> FALSE, error |-> o.error]
         ELSE [success |-> TRUE, data |-> o.value]
    ELSE [success |-> TRUE, data |-> [detail |-> "Internal Server Error"]]

\* an uploadFileToAgent that resolves to an empty result when the body of a
\* 2xx response cannot be parsed
uploadFileToAgentLenientParse(file, o) ==
    IF o.fetch = "rejected"
    THEN [success |-> FALSE, error |-> o.error]
    ELSE IF o.ok
    THEN IF o.json = "rejected"
         THEN [success |-> TRUE, data |-> [raw |-> o.error]]
         ELSE [success |-> TRUE, data |-> o.value]
    ELSE [success |-> FALSE, error |-> "Upload failed"]

\* the result uploadFileToAgent resolves to when the network answers o
uploadFileToAgent(file, o) ==
    IF o.fetch = "rejected"
    THEN [success |-> FALSE, error |-> o.error]
    ELSE IF o.ok
    THEN IF o.json = "rejected"
         THEN [success |-> FALSE, error |-> o.error]
         ELSE [success |-> TRUE, data |-> o.value]
    ELSE [success |-> FALSE, error |-> "Upload failed"]

\* an upload branch taken for every target when a file is staged
isUploadAnyTarget(agentId, file) == file # Null

\* an upload branch that is never taken
isUploadDisabled(agentId, file) == FALSE

\* sendToAgent takes the upload branch
isUpload(agentId, file) == agentId = "agent1" /\ file # Null

\* the general request without the orchestrator branch (lines 220-223)
agentRequestNoOrchestratorBranch(agentId, message) ==
    LET agent == AGENT_CONFIGS[agentId]
        endpoint == IF agentId = "agent2" THEN "/api/knowledge/search"
                    ELSE IF agentId = "agent3" THEN "/api/analytics/"
                    ELSE IF agentId = "agent4" THEN "/api/transformer/health"
                    ELSE "/api/health"
        method == IF agentId = "agent2" THEN "POST" ELSE "GET"
        body == IF agentId = "agent2"
                THEN "{\"query\":" \o jsonString(message)
                         \o ",\"max_results\":5}"
                ELSE Null
    IN [url |-> agent.url \o endpoint,
        method |-> method,
        headers |-> [ContentType |-> "application/json"],
        body |-> body]

\* a general request that always goes to the base URL of the orchestrator
agentRequestOrchestratorBase(agentId, message) ==
    LET agent == AGENT_CONFIGS.orchestrator
        endpoint == IF agentId = "agent2" THEN "/api/knowledge/search"
                    ELSE IF agentId = "agent3" THEN "/api/analytics/"
                    ELSE IF agentId = "agent4" THEN "/api/transformer/health"
                    ELSE IF agentId = "orchestrator"
                    THEN "/api/orchestrator/status"
                    ELSE "/api/health"
        method == IF agentId = "agent2" THEN "POST" ELSE "GET"
        body == IF agentId = "agent2"
                THEN "{\"query\":" \o jsonString(message)
                         \o ",\"max_results\":5}"
                ELSE Null
    IN [url |-> agent.url \o endpoint,
        method |-> method,
        headers |-> [ContentType |-> "application/json"],
        body |-> body]

\* the request sendToAgent hands to fetch in the general case
agentRequest(agentId, message) ==
    LET agent == AGENT_CONFIGS[agentId]
        endpoint == IF agentId = "agent2" THEN "/api/knowledge/search"
                    ELSE IF agentId = "agent3" THEN "/api/analytics/"
                    ELSE IF agentId = "agent4" THEN "/api/transformer/health"
                    ELSE IF agentId = "orchestrator"
                    THEN "/api/orchestrator/status"
                    ELSE "/api/health"
        method == IF agentId = "agent2" THEN "POST" ELSE "GET"
        body == IF agentId = "agent2"
                THEN "{\"query\":" \o jsonString(message)
                         \o ",\"max_results\":5}"
                ELSE Null
    IN [url |-> agent.url \o endpoint,
        method |-> method,
        headers |-> [ContentType |-> "application/json"],
        body |-> body]

\* the one request a call of sendToAgent issues
sendToAgentRequest(agentId, message, file) ==
    IF isUpload(agentId, file) THEN uploadRequest(file)
    ELSE agentRequest(agentId, message)

\* an upload branch that does not return and goes on to the general request
sendToAgentRequestsFallThrough(agentId, message, file) ==
    IF isUpload(agentId, file)
    THEN <<uploadRequest(file), agentRequest(agentId, message)>>
    ELSE <<agentRequest(agentId, message)>>

\* the fetch calls of one call of sendToAgent, in order: the upload branch
\* returns (lines 186-195) before the general request is built
sendToAgentRequests(agentId, message, file) ==
    <<sendToAgentRequest(agentId, message, file)>>

\* a catch block that hands the error on as data
catchErrorWithData(agent, text) ==
    [success |-> FALSE,
     response |-> "Error communicating with " \o agent.name \o ": " \o text,
     data |-> [error |-> text]]

\* a catch block that answers with the text of the non-2xx branch
catchErrorUnavailable(agent, text) ==
    [success |-> FALSE,
     response |-> agent.name
         \o " is currently unavailable. Please try again later."]

\* a catch block that lets the error escape
catchErrorRethrow(agent, text) == [thrown |-> text]

\* the catch block of sendToAgent (lines 246-251)
catchError(agent, text) ==
    [success |-> FALSE,
     response |-> "Error communicating with " \o agent.name \o ": " \o text]

\* the result sendToAgent resolves to when the network answers o; a result
\* with a field thrown stands for a rejected promise
sendToAgent(agentId, message, file, o) ==
    LET agent == AGENT_CONFIGS[agentId]
        caught(text) == catchError(agent, text)
    IN
    IF isUpload(agentId, file)
    THEN LET uploadResult == uploadFileToAgent(file, o) IN
         IF uploadResult.success
         THEN IF uploadResult.data = Null
              THEN caught(NullPropertyErrorText)
              ELSE [success |-> TRUE,
                    response |-> "File \"" \o file.name
                        \o "\" uploaded successfully! Extracted "
                        \o (IF "extracted_data" \in DOMAIN uploadResult.data
                               /\ Truthy(uploadResult.data.extracted_data)
                            THEN "text content and metadata"
                            ELSE "file information")
                        \o ".",
                    data |-> uploadResult.data]
         ELSE [success |-> FALSE,
               response |-> "Failed to upload file: " \o uploadResult.error]
    ELSE IF o.fetch = "rejected" THEN caught(o.error)
    ELSE IF o.ok
    THEN IF o.json = "rejected" THEN caught(o.error)
         ELSE [success |-> TRUE,
               response |-> generateAgentResponse(agentId, message, o.value),
               data |-> o.value]
    ELSE [success |-> FALSE,
          response |-> agent.name
              \o " is currently unavailable. Please try again later."]

(***************************************************************************)
(* The session: UI events and the completion of the awaited sendToAgent.   *)
(* React flushes the state updates of an event handler before the next     *)
(* event is delivered, so every handler sees the current state and the     *)
(* controls are disabled according to it.                                  *)
(***************************************************************************)
\* what the user may type into the text field
Texts == {"", " ", "upload file", DocumentsExample}

\* the files the user may pick
Files == {[name |-> "report.pdf"], [name |-> "notes.txt"]}

\* the file-picker button (line 475)
pickerDisabled == isLoading

\* a text field that stays enabled while loading
inputDisabledNever == FALSE

\* the text field (line 485)
inputDisabled == isLoading

\* a send button that stays enabled while loading
sendDisabledIgnoresLoading == trim(inputValue) = "" /\ selectedFile = Null

\* the send button (line 491)
sendDisabled == isLoading \/ (trim(inputValue) = "" /\ selectedFile = Null)

\* an early return that tests the text without trimming it
sendRejectedUntrimmed(text, file) == text = "" /\ file = Null

\* the early return of handleSendMessage (line 287)
sendRejected(text, file) == trim(text) = "" /\ file = Null

\* a setMessages that puts the agent message in the place of the last entry
appendAgentMessageReplacingLast(prev, agentMessage) ==
    Append(SubSeq(prev, 1, Len(prev) - 1), agentMessage)

\* a transcript that takes the agent message of a successful dispatch only
appendAgentMessageOnSuccess(prev, agentMessage) ==
    IF agentMessage.success THEN Append(prev, agentMessage) ELSE prev

\* setMessages(prev => [...prev, agentMessage]) (line 317)
appendAgentMessage(prev, agentMessage) == Append(prev, agentMessage)

\* number of sends accepted so far
Sends == Len(requests)

\* the behaviours end when the last of MaxSends sends has completed
SessionOpen == Sends < MaxSends \/ inflight # <<>>

\* handleSendMessage up to its await, called by the event named event
handleSendMessage(event) ==
    /\ lastEvent' = event
    /\ pickedFile' = Null
    /\ IF sendRejected(inputValue, selectedFile)
       THEN UNCHANGED <<messages, inputValue, isLoading, selectedFile,
                        inflight, requests, responses, now>>
       ELSE /\ Sends < MaxSends
            /\ LET userMessage ==
                       [id |-> now,
                        type |-> "user",
                        content |-> IF inputValue # "" THEN inputValue
                                    ELSE "Uploading file: "
                                             \o selectedFile.name,
                        timestamp |-> now,
                        file |-> selectedFile]
                   targetAgent ==
                       analyzeIntent(IF inputValue # "" THEN inputValue
                                     ELSE "upload file " \o selectedFile.name)
               IN /\ messages' = Append(messages, userMessage)
                  /\ isLoading' = TRUE
                  /\ requests' = requests \o
                         sendToAgentRequests(targetAgent, inputValue,
                                             selectedFile)
                  /\ inflight' = Append(inflight,
                         [targetAgent |-> targetAgent,
                          message |-> inputValue,
                          file |-> selectedFile])
            /\ UNCHANGED <<inputValue, selectedFile, responses, now>>

\* onChange of the text field (line 482)
HandleChange ==
    /\ SessionOpen
    /\ ~inputDisabled
    /\ \E value \in Texts : inputValue' = value
    /\ lastEvent' = "change"
    /\ pickedFile' = Null
    /\ UNCHANGED <<messages, isLoading, selectedFile, inflight, requests,
                   responses, now>>
    /\ UNCHANGED harnessVars

\* a handleFileSelect that stores files[0] also when there is none
HandleFileSelectClearsOnCancel ==
    /\ SessionOpen
    /\ ~pickerDisabled
    /\ \E file \in Files \cup {Null} :
          /\ pickedFile' = file
          /\ selectedFile' = file
    /\ lastEvent' = "fileSelect"
    /\ UNCHANGED <<messages, inputValue, isLoading, inflight, requests,
                   responses, now>>
    /\ UNCHANGED harnessVars

\* a handleFileSelect that keeps the file already staged
HandleFileSelectKeepsFirst ==
    /\ SessionOpen
    /\ ~pickerDisabled
    /\ \E file \in Files \cup {Null} :
          /\ pickedFile' = file
          /\ selectedFile' = IF file # Null /\ selectedFile = Null THEN file
                             ELSE selectedFile
    /\ lastEvent' = "fileSelect"
    /\ UNCHANGED <<messages, inputValue, isLoading, inflight, requests,
                   responses, now>>
    /\ UNCHANGED harnessVars

\* handleFileSelect: the picker is opened with its button and closed with a
\* file or without one
HandleFileSelect ==
    /\ SessionOpen
    /\ ~pickerDisabled
    /\ \E file \in Files \cup {Null} :
          /\ pickedFile' = file
          /\ selectedFile' = IF file # Null THEN file ELSE selectedFile
    /\ lastEvent' = "fileSelect"
    /\ UNCHANGED <<messages, inputValue, isLoading, inflight, requests,
                   responses, now>>
    /\ UNCHANGED harnessVars

\* a Remove button that also gives up the send that is awaited
RemoveFileCancels ==
    /\ SessionOpen
    /\ selectedFile # Null
    /\ selectedFile' = Null
    /\ lastEvent' = "remove"
    /\ pickedFile' = Null
    /\ inflight' = <<>>
    /\ isLoading' = FALSE
    /\ UNCHANGED <<messages, inputValue, requests, responses, now>>
    /\ UNCHANGED harnessVars

\* onClick of the Remove button, shown while a file is staged (lines 442-458)
RemoveFile ==
    /\ SessionOpen
    /\ selectedFile # Null
    /\ selectedFile' = Null
    /\ lastEvent' = "remove"
    /\ pickedFile' = Null
    /\ UNCHANGED <<messages, inputValue, isLoading, inflight, requests,
                   responses, now>>
    /\ UNCHANGED harnessVars

\* onClick of the send button
ClickSend ==
    /\ SessionOpen
    /\ ~sendDisabled
    /\ handleSendMessage("clickSend")
    /\ UNCHANGED harnessVars

\* handleKeyPress with Enter and no Shift
KeyEnter ==
    /\ SessionOpen
    /\ ~inputDisabled
    /\ handleSendMessage("enter")
    /\ UNCHANGED harnessVars

\* handleKeyPress with any other key or with Shift held
KeyOther ==
    /\ SessionOpen
    /\ ~inputDisabled
    /\ \E e \in {[key |-> "Enter", shiftKey |-> TRUE],
                 [key |-> "a", shiftKey |-> FALSE]} :
          /\ ~(e.key = "Enter" /\ ~e.shiftKey)
          /\ lastEvent' = IF e.key = "Enter" THEN "shiftEnter" ELSE "key"
    /\ pickedFile' = Null
    /\ UNCHANGED <<messages, inputValue, isLoading, selectedFile, inflight,
                   requests, responses, now>>
    /\ UNCHANGED harnessVars

\* inflight without its i-th entry
RemoveAt(seq, i) == SubSeq(seq, 1, i - 1) \o SubSeq(seq, i + 1, Len(seq))

\* a continuation after the await that clears the text and the staged file
\* only when the dispatch succeeded
SettleKeepsInputOnFailure ==
    \E i \in 1..Len(inflight), o \in FetchOutcomes :
        LET call == inflight[i]
            result == sendToAgent(call.targetAgent, call.message, call.file, o)
            agentMessage ==
                [id |-> now + 1,
                 type |-> "agent",
                 content |-> result.response,
                 timestamp |-> now,
                 agent |-> call.targetAgent,
                 success |-> result.success,
                 data |-> IF "data" \in DOMAIN result THEN result.data
                          ELSE Undefined]
        IN /\ IF "thrown" \in DOMAIN result
              THEN /\ lastEvent' = "unhandledRejection"
                   /\ UNCHANGED <<messages, inputValue, selectedFile,
                                  isLoading>>
              ELSE /\ messages' = appendAgentMessage(messages, agentMessage)
                   /\ IF result.success
                      THEN inputValue' = "" /\ selectedFile' = Null
                      ELSE UNCHANGED <<inputValue, selectedFile>>
                   /\ isLoading' = FALSE
                   /\ lastEvent' = "settle"
           /\ pickedFile' = Null
           /\ inflight' = RemoveAt(inflight, i)
           /\ responses' = Append(responses, [call |-> call, outcome |-> o])
           /\ UNCHANGED <<requests, now>>
           /\ UNCHANGED harnessVars

\* the awaited sendToAgent of a suspended handleSendMessage settles and the
\* handler runs to its end (lines 305-324)
Settle ==
    \E i \in 1..Len(inflight), o \in FetchOutcomes :
        LET call == inflight[i]
            result == sendToAgent(call.targetAgent, call.message, call.file, o)
            agentMessage ==
                [id |-> now + 1,
                 type |-> "agent",
                 content |-> result.response,
                 timestamp |-> now,
                 agent |-> call.targetAgent,
                 success |-> result.success,
                 data |-> IF "data" \in DOMAIN result THEN result.data
                          ELSE Undefined]
        IN /\ IF "thrown" \in DOMAIN result
              THEN \* the await rejects: the rest of the handler does not run
                   /\ lastEvent' = "unhandledRejection"
                   /\ UNCHANGED <<messages, inputValue, selectedFile,
                                  isLoading>>
              ELSE /\ messages' = appendAgentMessage(messages, agentMessage)
                   /\ inputValue' = ""
                   /\ selectedFile' = Null
                   /\ isLoading' = FALSE
                   /\ lastEvent' = "settle"
           /\ pickedFile' = Null
           /\ inflight' = RemoveAt(inflight, i)
           /\ responses' = Append(responses, [call |-> call, outcome |-> o])
           /\ UNCHANGED <<requests, now>>
           /\ UNCHANGED harnessVars

\* Date.now() advances by one millisecond
Tick ==
    /\ now < Epoch + MaxTicks
    /\ now' = now + 1
    /\ UNCHANGED <<messages, inputValue, isLoading, selectedFile, inflight,
                   requests, responses, lastEvent, pickedFile>>
    /\ UNCHANGED harnessVars

Init ==
    /\ SessionInit
    /\ intentInput = ""
    /\ intentResult = Pending
    /\ recasedInput = ""
    /\ recasedResult = Pending
    /\ FormatIdle

Next ==
    \/ HandleChange
    \/ HandleFileSelect
    \/ RemoveFile
    \/ ClickSend
    \/ KeyEnter
    \/ KeyOther
    \/ Settle

\* The session.  No handler reads a message id or a timestamp back, so the
\* behaviours in which Date.now() stays at Epoch show every transcript up
\* to ids and timestamps.
Spec == Init /\ [][Next]_vars

\* The session with a running clock: Date.now() may advance by a
\* millisecond between any two steps.
SpecClock == Init /\ [][Next \/ Tick]_vars

(***************************************************************************)
(* One send with any text: the user has typed one of OneSendTexts and has  *)
(* staged a file or none, then sends, and the call settles.  The texts     *)
(* reach every target and every branch of generateAgentResponse.           *)
(***************************************************************************)
OneSendTexts ==
    Texts \cup {"hello", LaptopsExample, TransformExample,
                "how many laptops are in the database", "sales report",
                "how to process for a refund", "find \"pricing\""}

\* the files a one-send session can start with: the names of the last two contain
\* keywords of the Agent 2, Agent 3 and Agent 4 blocks of analyzeIntent
OneSendFiles ==
    Files \cup {[name |-> "last document.pdf"],
                [name |-> "Sales Database CONVERT.csv"]}

InitOneSend ==
    /\ messages = InitialMessages
    /\ inputValue \in OneSendTexts
    /\ selectedFile \in OneSendFiles \cup {Null}
    /\ isLoading = FALSE
    /\ inflight = <<>>
    /\ requests = <<>>
    /\ responses = <<>>
    /\ now = Epoch
    /\ lastEvent = "change"
    /\ pickedFile = Null
    /\ intentInput = ""
    /\ intentResult = Pending
    /\ recasedInput = ""
    /\ recasedResult = Pending
    /\ FormatIdle

NextOneSend == ClickSend \/ KeyEnter \/ Settle

SpecOneSend == InitOneSend /\ [][NextOneSend]_vars

(***************************************************************************)
(* Claims about the session (checked under Spec or SpecOneSend).           *)
(***************************************************************************)
Last(seq) == seq[Len(seq)]

\* C7: every accepted send adds exactly two transcript entries, its user
\* message and then its agent message: the transcript changes only by a
\* send that appends one user message and starts loading, or by a
\* completion, whatever the network answered, that appends one agent message
\* directly after that user message and stops loading; the loading flag
\* changes in no other step.
C7_SendAppendsUserThenAgent ==
    [][/\ messages' # messages =>
             /\ Len(messages') = Len(messages) + 1
             /\ SubSeq(messages', 1, Len(messages)) = messages
             /\ \/ /\ ~isLoading /\ isLoading'
                   /\ Last(messages').type = "user"
                \/ /\ isLoading /\ ~isLoading'
                   /\ Last(messages).type = "user"
                   /\ Last(messages').type = "agent"
       /\ isLoading' # isLoading => messages' # messages]_vars

\* a file-only send that failed and a text-and-file send that succeeded
C7_Witness ==
    /\ Len(messages) = 5
    /\ ~isLoading
    /\ messages[2].content = "Uploading file: report.pdf"
    /\ messages[3].success = FALSE
    /\ messages[4].content = "upload file"
    /\ messages[4].file # Null
    /\ messages[5].success = TRUE

\* C8: after the greeting the roles of the transcript alternate user,
\* agent, user, agent, ...
C8_RolesAlternate ==
    /\ messages[1].type = "system"
    /\ \A i \in 2..Len(messages) :
          messages[i].type = IF i % 2 = 0 THEN "user" ELSE "agent"

\* a second send is waiting for its agent message
C8_Witness ==
    /\ Len(messages) = 4
    /\ isLoading
    /\ messages[3].type = "agent"
    /\ messages[4].type = "user"

\* C9: at most one dispatch is in flight, one exactly while isLoading is
\* true, and while it is the send button, the text field and the file
\* picker are disabled.
C9_SingleFlight ==
    /\ Len(inflight) <= 1
    /\ isLoading <=> Len(inflight) = 1
    /\ isLoading => sendDisabled /\ inputDisabled /\ pickerDisabled

\* a send is in flight with a text and a file that would pass the send guard
C9_Witness ==
    /\ Len(inflight) = 1
    /\ isLoading
    /\ ~sendRejected(inputValue, selectedFile)
    /\ Sends < MaxSends

SendEvents == {"clickSend", "enter"}

\* C10 as amended: a request is issued only by a send action (send click or
\* Enter without Shift) taken when the text field is not blank or a file is
\* staged, and by every such send action; a send action with a blank text
\* and no staged file changes nothing.
C10_RequestsOnlyBySend ==
    [][/\ requests' # requests =>
             /\ lastEvent' \in SendEvents
             /\ trim(inputValue) # "" \/ selectedFile # Null
             /\ Len(requests') = Len(requests) + 1
       /\ lastEvent' \in SendEvents =>
             IF trim(inputValue) # "" \/ selectedFile # Null
             THEN Len(requests') = Len(requests) + 1
             ELSE UNCHANGED <<messages, isLoading, inputValue, selectedFile,
                              requests, inflight>>]_vars

\* Enter was pressed on a whitespace-only text with no file staged
C10_Witness ==
    /\ lastEvent = "enter"
    /\ inputValue = " "
    /\ selectedFile = Null
    /\ ~isLoading
    /\ Sends = 1

\* C10 as stated: every send action taken when the text field is non-empty
\* or a file is staged issues a request, no other step does, and a send
\* action with empty text and no staged file changes nothing.
C10_Original ==
    [][/\ requests' # requests =>
             /\ lastEvent' \in SendEvents
             /\ inputValue # "" \/ selectedFile # Null
       /\ lastEvent' \in SendEvents =>
             IF inputValue # "" \/ selectedFile # Null
             THEN Len(requests') = Len(requests) + 1
             ELSE UNCHANGED <<messages, isLoading, inputValue, selectedFile,
                              requests, inflight>>]_vars


\* The session in which every fetch eventually settles: a pending promise of
\* fetch is resolved or rejected by the browser, and the continuation of the
\* awaiting handler is then run from the microtask queue, whatever the user
\* does meanwhile.
SpecLive == Spec /\ WF_vars(Settle)

\* One send in which the fetch eventually settles.  While a send is awaited
\* the text field, the picker and the send button are disabled (lines 475,
\* 485, 491), so the Remove button is the only control the user can still
\* operate.
NextOneSendLive == ClickSend \/ KeyEnter \/ RemoveFile \/ Settle

SpecOneSendLive == InitOneSend /\ [][NextOneSendLive]_vars /\ WF_vars(Settle)

(***************************************************************************)
(* generateAgentResponse on its own: two calls for one agentId, with       *)
(* messages and payloads of their own.                                     *)
(***************************************************************************)
\* the keys of the switch and one agentId that is none of them
FormatAgents == Targets \cup {"agent5"}

FormatMessages ==
    {"", "hello", DocumentsExample, "LAST DOCUMENT", "last week",
     "documentation", "how to process the last document",
     "How To reset", "the process", "how many laptops", "HOW MANY LAPTOPS",
     "how many orders", "laptop stock"}

\* what response.json() can have resolved to
Payloads == {o.value : o \in {x \in FetchOutcomes : "value" \in DOMAIN x}}

FormatArguments ==
    [agentId : FormatAgents, message : FormatMessages, data : Payloads]

InitFormat ==
    /\ SessionInit
    /\ intentInput = ""
    /\ intentResult = Pending
    /\ recasedInput = ""
    /\ recasedResult = Pending
    /\ formatCalls \in {c \in FormatArguments \X FormatArguments :
                             c[1].agentId = c[2].agentId}
    /\ formatTexts = <<>>

\* the next call of generateAgentResponse returns
Format ==
    /\ Len(formatTexts) < Len(formatCalls)
    /\ LET call == formatCalls[Len(formatTexts) + 1]
       IN formatTexts' = Append(formatTexts,
              generateAgentResponse(call.agentId, call.message, call.data))
    /\ UNCHANGED formatCalls
    /\ UNCHANGED intentVars
    /\ UNCHANGED sessionVars

NextFormat == Format

SpecFormat == InitFormat /\ [][NextFormat]_vars

(***************************************************************************)
(* Claims about the dispatcher.                                            *)
(***************************************************************************)
\* what the network answered
Rejected(o) == o.fetch = "rejected"
NonOk(o) == o.fetch = "resolved" /\ ~o.ok
Unparseable(o) == o.fetch = "resolved" /\ o.ok /\ o.json = "rejected"
Parsed(o) == o.fetch = "resolved" /\ o.ok /\ o.json = "resolved"

EndsWith(s, suffix) ==
    /\ Len(s) >= Len(suffix)
    /\ SubSeq(s, Len(s) - Len(suffix) + 1, Len(s)) = suffix

UploadPath == "/api/files/upload"

IsUploadRequest(r) == EndsWith(r.url, UploadPath)

\* the step appends a user message: a send was accepted
SendAccepted ==
    /\ Len(messages') = Len(messages) + 1
    /\ Last(messages').type = "user"

\* C11: an accepted send issues exactly one request, the upload request or
\* the general request of its target, and no other step issues a request:
\* none follows a non-2xx response, a transport error or an unparseable
\* body.
C11_OneRequestPerSend ==
    [][IF SendAccepted
       THEN /\ Len(requests') = Len(requests) + 1
            /\ SubSeq(requests', 1, Len(requests)) = requests
            /\ LET call == Last(inflight')
                   request == Last(requests')
               IN IF IsUploadRequest(request)
                  THEN request = uploadRequest(call.file)
                  ELSE request = agentRequest(call.targetAgent, call.message)
       ELSE requests' = requests]_vars

\* an upload answered with a non-2xx status and then a general request that
\* was rejected: two sends, two requests
C11_Witness ==
    /\ Len(responses) = 2
    /\ Len(requests) = 2
    /\ IsUploadRequest(requests[1])
    /\ NonOk(responses[1].outcome)
    /\ ~IsUploadRequest(requests[2])
    /\ Rejected(responses[2].outcome)


\* the call that issued the k-th request: settled calls are in responses,
\* the call in flight is in inflight
CallOf(k) ==
    IF k <= Len(responses) THEN responses[k].call
    ELSE inflight[k - Len(responses)]

\* the endpoint and the method of every target in the general case
GeneralEndpoint ==
    [agent1 |-> [path |-> "/api/health", method |-> "GET"],
     agent2 |-> [path |-> "/api/knowledge/search", method |-> "POST"],
     agent3 |-> [path |-> "/api/analytics/", method |-> "GET"],
     agent4 |-> [path |-> "/api/transformer/health", method |-> "GET"],
     orchestrator |-> [path |-> "/api/orchestrator/status", method |-> "GET"]]

QuotedText == "find \"pricing\""

\* the JSON text of {query: message, max_results: 5}
KnowledgeBody(message) ==
    IF message = QuotedText
    THEN "{\"query\":\"find \\\"pricing\\\"\",\"max_results\":5}"
    ELSE "{\"query\":\"" \o message \o "\",\"max_results\":5}"

\* C12: a general request goes to the base URL of its target followed by
\* the endpoint of that target, with the method of that target; its body is
\* the JSON text of {query: message, max_results: 5} for knowledge (agent2)
\* and absent for the other targets.
C12_GeneralRequestByTarget ==
    \A k \in 1..Len(requests) :
        LET request == requests[k]
            target == CallOf(k).targetAgent
        IN ~IsUploadRequest(request) =>
              /\ request.url = AGENT_CONFIGS[target].url
                                   \o GeneralEndpoint[target].path
              /\ request.method = GeneralEndpoint[target].method
              /\ IF target = "agent2"
                 THEN request.body = KnowledgeBody(CallOf(k).message)
                 ELSE request.body = Null

\* a status request went to the orchestrator with a file staged
C12_Witness ==
    /\ Len(requests) = 1
    /\ CallOf(1).targetAgent = "orchestrator"
    /\ CallOf(1).file # Null
    /\ requests[1].url = "https://mzhyi8cnozj8.manus.space/api/orchestrator/status"
    /\ requests[1].method = "GET"


\* C13: every call has issued one request, and the request of a send with a
\* staged file and target collector (agent1) is the multipart POST of that
\* file, in the form field file, to the collector base URL at
\* /api/files/upload: not the general request.
C13_StagedFileIsUploaded ==
    /\ Len(requests) = Len(responses) + Len(inflight)
    /\ \A k \in 1..Len(requests) :
          LET call == CallOf(k) IN
          (call.file # Null /\ call.targetAgent = "agent1") =>
              /\ messages[2 * k].file = call.file
              /\ requests[k] =
                    [url |-> AGENT_CONFIGS.agent1.url \o UploadPath,
                     method |-> "POST",
                     body |-> [formData |-> [file |-> call.file]]]

\* a staged file is being uploaded for a send with a collector text
C13_Witness ==
    /\ Len(requests) = 1
    /\ isLoading
    /\ CallOf(1).targetAgent = "agent1"
    /\ CallOf(1).message = "upload file"
    /\ requests[1].method = "POST"
    /\ requests[1].url = "https://3dhkilcjlzdj.manus.space/api/files/upload"


\* the agent message of the k-th settled call
AgentMessageOf(k) == messages[2 * k + 1]

DisplayName(target) == AGENT_CONFIGS[target].name

\* C14 as stated: after a non-2xx answer, on the upload path and on the
\* general path, the agent message has success false and its text contains
\* the display name of the target.
C14_Original ==
    \A k \in 1..Len(responses) :
        NonOk(responses[k].outcome) =>
            /\ AgentMessageOf(k).success = FALSE
            /\ includes(AgentMessageOf(k).content,
                        DisplayName(responses[k].call.targetAgent))

\* C14 as amended: after a non-2xx answer the agent message has success
\* false; on the general path its text contains the display name of the
\* target, on the upload path its text is "Failed to upload file: Upload
\* failed".
C14_NonOkFails ==
    \A k \in 1..Len(responses) :
        NonOk(responses[k].outcome) =>
            /\ AgentMessageOf(k).success = FALSE
            /\ IF IsUploadRequest(requests[k])
               THEN AgentMessageOf(k).content
                        = "Failed to upload file: Upload failed"
               ELSE includes(AgentMessageOf(k).content,
                             DisplayName(responses[k].call.targetAgent))

\* an upload was answered with a non-2xx status
C14_Witness ==
    /\ Len(responses) = 1
    /\ NonOk(responses[1].outcome)
    /\ IsUploadRequest(requests[1])
    /\ AgentMessageOf(1).type = "agent"
    /\ ~AgentMessageOf(1).success


UnavailableText(target) ==
    DisplayName(target) \o " is currently unavailable. Please try again later."

\* C15: on the general path a rejected fetch gives success false and a text
\* that contains the display name of the target and the error text, a
\* non-2xx answer gives success false and exactly the text "<display name>
\* is currently unavailable. Please try again later.", and the text of the
\* first is never the text of the second.
C15_GeneralFailureKinds ==
    \A k \in 1..Len(responses) :
        LET o == responses[k].outcome
            target == responses[k].call.targetAgent
            m == AgentMessageOf(k)
        IN ~IsUploadRequest(requests[k]) =>
              /\ Rejected(o) =>
                    /\ m.success = FALSE
                    /\ includes(m.content, DisplayName(target))
                    /\ includes(m.content, o.error)
                    /\ m.content # UnavailableText(target)
              /\ NonOk(o) =>
                    /\ m.success = FALSE
                    /\ m.content = UnavailableText(target)

\* the analytics request of the Database Manager was rejected
C15_Witness ==
    /\ Len(responses) = 1
    /\ Rejected(responses[1].outcome)
    /\ responses[1].call.targetAgent = "agent3"
    /\ AgentMessageOf(1).content
           = "Error communicating with Database Manager: Failed to fetch"


\* the texts generateAgentResponse can answer with
CannedTexts ==
    {CollectorText, RecentDocumentsText, ProcedureText, KnowledgeText,
     LaptopSalesText, AnalyticsText, TransformerText, OrchestratorText,
     FallbackText}

\* C16: after a 2xx answer whose body cannot be parsed as JSON, on the
\* general path and on the upload path, the agent message has success
\* false, carries no data, and its text is neither a text of
\* generateAgentResponse nor the text of a successful upload.
C16_UnparseableBodyFails ==
    \A k \in 1..Len(responses) :
        LET o == responses[k].outcome
            m == AgentMessageOf(k)
        IN Unparseable(o) =>
              /\ m.success = FALSE
              /\ m.data = Undefined
              /\ m.content \notin CannedTexts
              /\ ~includes(m.content, "uploaded successfully")

\* the knowledge search was answered 2xx with a body that is not JSON
C16_Witness ==
    /\ Len(responses) = 1
    /\ Unparseable(responses[1].outcome)
    /\ ~IsUploadRequest(requests[1])
    /\ responses[1].call.targetAgent = "agent2"
    /\ AgentMessageOf(1).content
           = "Error communicating with Knowledge Base Creator: "
                 \o SyntaxErrorText


\* the step ends an awaited call of sendToAgent
CallSettles == Len(inflight') < Len(inflight)

\* C17: whatever the network answers, the awaited sendToAgent resolves to a
\* result with a boolean success and a text, and handleSendMessage goes on
\* to append the agent message and to reset isLoading; no call ends in an
\* unhandled rejection.
C17_FailuresAreCaught ==
    [][CallSettles =>
          /\ lastEvent' = "settle"
          /\ Len(messages') = Len(messages) + 1
          /\ Last(messages').type = "agent"
          /\ Last(messages').success \in BOOLEAN
          /\ Len(Last(messages').content) > 0
          /\ isLoading' = FALSE]_vars

\* an upload was answered 2xx with the JSON value null: reading
\* extracted_data of it throws inside sendToAgent, and the session has the
\* agent message of the catch block and is not loading
C17_Witness ==
    /\ Len(responses) = 1
    /\ IsUploadRequest(requests[1])
    /\ Parsed(responses[1].outcome)
    /\ responses[1].outcome.value = Null
    /\ lastEvent = "settle"
    /\ Last(messages).type = "agent"
    /\ Last(messages).success = FALSE
    /\ includes(Last(messages).content, NullPropertyErrorText)
    /\ isLoading = FALSE


\* C18: if every awaited call eventually settles, a session that is loading
\* eventually is not loading and has the agent message of the send as its
\* last message, whatever the network answers; and the session is loading
\* only while a call is awaited.
C18_SendingReturnsToIdle ==
    /\ [](inflight = <<>> => ~isLoading)
    /\ isLoading ~> (~isLoading /\ inflight = <<>>
                        /\ Last(messages).type = "agent")

\* a send with a staged file was answered by a rejected fetch, and the
\* session is idle again with the agent message last
C18_Witness ==
    /\ Len(responses) = 1
    /\ responses[1].call.file # Null
    /\ Rejected(responses[1].outcome)
    /\ inflight = <<>>
    /\ ~isLoading
    /\ lastEvent = "settle"
    /\ Last(messages).type = "agent"


\* C19: whenever an upload is answered 2xx with a body that parses as JSON,
\* the agent message has success true, its agent is agent1 and its text
\* contains the name of the uploaded file.
C19_UploadNamesFile ==
    \A k \in 1..Len(responses) :
        LET o == responses[k].outcome
            m == AgentMessageOf(k)
        IN (IsUploadRequest(requests[k]) /\ Parsed(o)) =>
              /\ m.success = TRUE
              /\ m.agent = "agent1"
              /\ includes(m.content, responses[k].call.file.name)


\* C20: the step that completes a send, whether the dispatch succeeded or
\* failed, leaves isLoading false, the text field empty and no file staged.
C20_CompletionResets ==
    [][CallSettles =>
          /\ isLoading' = FALSE
          /\ inputValue' = ""
          /\ selectedFile' = Null]_vars

\* a send with a text and a staged file has failed, and the text field is
\* empty, no file is staged and the session is not loading
C20_Witness ==
    /\ Len(responses) = 1
    /\ responses[1].call.message # ""
    /\ responses[1].call.file # Null
    /\ AgentMessageOf(1).success = FALSE
    /\ inputValue = ""
    /\ selectedFile = Null
    /\ isLoading = FALSE


\* C21: the staged file is one file or none; a file selection that delivers
\* a file stages that file, whatever was staged before; the file a send
\* hands to sendToAgent and uploads is the file staged at that moment; the
\* Remove button and the completion of a send leave no file staged.
C21_OneStagedFile ==
    [][/\ selectedFile' \in Files \cup {Null}
       /\ (lastEvent' = "fileSelect" /\ pickedFile' # Null) =>
              selectedFile' = pickedFile'
       /\ SendAccepted =>
              /\ Last(inflight').file = selectedFile
              /\ IsUploadRequest(Last(requests')) =>
                     Last(requests').body.formData.file = selectedFile
       /\ lastEvent' = "remove" => selectedFile' = Null
       /\ CallSettles => selectedFile' = Null]_vars

\* report.pdf went out with the first send, and now notes.txt has just been
\* picked and is the staged file
C21_Witness ==
    /\ Len(requests) = 1
    /\ IsUploadRequest(requests[1])
    /\ requests[1].body.formData.file = [name |-> "report.pdf"]
    /\ lastEvent = "fileSelect"
    /\ pickedFile = [name |-> "notes.txt"]
    /\ selectedFile = [name |-> "notes.txt"]


\* C22: in every step the transcript before the step is a prefix of the
\* transcript after it: no entry is removed, reordered or changed.
C22_AppendOnly ==
    [][/\ Len(messages') >= Len(messages)
       /\ SubSeq(messages', 1, Len(messages)) = messages]_vars

\* a failed and a successful send have completed: the transcript has grown
\* four times by one entry
C22_Witness ==
    /\ Len(messages) = 5
    /\ lastEvent = "settle"
    /\ messages[3].type = "agent"
    /\ messages[3].success = FALSE
    /\ messages[5].type = "agent"
    /\ messages[5].success = TRUE
    /\ messages[5].agent = "agent2"

\* C23: the transcript is never empty and its first entry is the greeting:
\* type system, agent orchestrator, the welcome text.
C23_GreetingFirst ==
    /\ Len(messages) >= 1
    /\ messages[1].type = "system"
    /\ messages[1].agent = "orchestrator"
    /\ messages[1].content = WelcomeText

\* a send has completed and the greeting is still the first of the three
\* entries
C23_Witness ==
    /\ Len(messages) = 3
    /\ messages[1].type = "system"
    /\ messages[2].type = "user"
    /\ messages[3].type = "agent"
    /\ inflight = <<>>


StartsWith(s, prefix) ==
    /\ Len(s) >= Len(prefix)
    /\ SubSeq(s, 1, Len(prefix)) = prefix

\* the text handleSendMessage classified for a call
ClassifiedText(call) ==
    IF call.message # "" THEN call.message
    ELSE "upload file " \o call.file.name

\* C24: every agent or system message has one agent field whose value is
\* one of the five configured targets; for the agent message of a send it is
\* the target analyzeIntent returned for that send, and the request of the
\* send went to the base URL of that target.
C24_OneOriginTarget ==
    /\ \A i \in 1..Len(messages) :
          messages[i].type \in {"agent", "system"} =>
              /\ "agent" \in DOMAIN messages[i]
              /\ messages[i].agent \in Targets
    /\ \A k \in 1..Len(responses) :
          LET m == AgentMessageOf(k) IN
          /\ m.agent = analyzeIntent(ClassifiedText(responses[k].call))
          /\ StartsWith(requests[k].url,
                        AGENT_CONFIGS[m.agent].url \o "/api/")

\* the transform request was classified agent4, went to the base URL of the
\* Data Transformer and was answered by a message of agent4
C24_Witness ==
    /\ Len(responses) = 1
    /\ responses[1].call.message = TransformExample
    /\ requests[1].url = "https://lnh8imcj5kwd.manus.space/api/transformer/health"
    /\ AgentMessageOf(1).agent = "agent4"


\* C25: a send with a staged file and an empty text field classifies the
\* text "upload file <name>", the target is agent1 whatever the name of the
\* file is, the request is the upload of that file, and the agent message
\* has agent agent1.
C25_FileOnlyGoesToCollector ==
    \A k \in 1..Len(requests) :
        LET call == CallOf(k) IN
        (call.message = "" /\ call.file # Null) =>
            /\ call.targetAgent = analyzeIntent("upload file " \o call.file.name)
            /\ call.targetAgent = "agent1"
            /\ IsUploadRequest(requests[k])
            /\ requests[k].body.formData.file = call.file
            /\ k <= Len(responses) => AgentMessageOf(k).agent = "agent1"

\* a file whose name holds the Agent 2 keywords "last" and "document" was
\* sent without text, uploaded and answered by agent1
C25_Witness ==
    /\ Len(responses) = 1
    /\ responses[1].call.message = ""
    /\ responses[1].call.file = [name |-> "last document.pdf"]
    /\ IsUploadRequest(requests[1])
    /\ AgentMessageOf(1).agent = "agent1"


\* the arguments and the value of the i-th call of the formatter harness
FormatCall(i) == formatCalls[i]
FormatLower(i) == toLowerCase(formatCalls[i].message)

\* C26: for agentId agent2 the formatter returns the recent-documents text
\* when the lowercased message contains "last" and "document", also when it
\* contains "process" or "how to" as well; otherwise the procedure text
\* when it contains "process" or "how to"; otherwise the generic text.
C26_KnowledgeTexts ==
    \A i \in 1..Len(formatTexts) :
        LET recent == /\ includes(FormatLower(i), "last")
                      /\ includes(FormatLower(i), "document")
            procedure == \/ includes(FormatLower(i), "process")
                         \/ includes(FormatLower(i), "how to")
        IN FormatCall(i).agentId = "agent2" =>
              /\ recent => formatTexts[i] = RecentDocumentsText
              /\ (~recent /\ procedure) => formatTexts[i] = ProcedureText
              /\ (~recent /\ ~procedure) => formatTexts[i] = KnowledgeText

\* a message with "last", "document", "how to" and "process" got the
\* recent-documents text
C26_Witness ==
    /\ Len(formatTexts) >= 1
    /\ FormatCall(1).agentId = "agent2"
    /\ FormatCall(1).message = "how to process the last document"
    /\ formatTexts[1] = RecentDocumentsText

\* C27: for agentId agent3 the formatter returns the sales summary exactly
\* when the lowercased message contains "how many" and "laptop", and the
\* generic analytics text otherwise.
C27_DatabaseTexts ==
    \A i \in 1..Len(formatTexts) :
        LET summary == /\ includes(FormatLower(i), "how many")
                       /\ includes(FormatLower(i), "laptop")
        IN FormatCall(i).agentId = "agent3" =>
              /\ summary <=> formatTexts[i] = LaptopSalesText
              /\ ~summary => formatTexts[i] = AnalyticsText

\* an upper-case question got the sales summary
C27_Witness ==
    /\ Len(formatTexts) >= 1
    /\ FormatCall(1).agentId = "agent3"
    /\ FormatCall(1).message = "HOW MANY LAPTOPS"
    /\ formatTexts[1] = LaptopSalesText

\* C28: two calls of the formatter with the same agentId and the same
\* message return the same text whatever their payloads are, and for
\* agent1, agent4 and orchestrator they return the same text whatever
\* their messages are.
C28_TextIgnoresPayload ==
    Len(formatTexts) = 2 =>
        /\ (/\ FormatCall(1).agentId = FormatCall(2).agentId
            /\ FormatCall(1).message = FormatCall(2).message) =>
               formatTexts[1] = formatTexts[2]
        /\ (/\ FormatCall(1).agentId = FormatCall(2).agentId
            /\ FormatCall(1).agentId \in {"agent1", "agent4", "orchestrator"}) =>
               formatTexts[1] = formatTexts[2]

\* agent1 was called with two messages, with a payload that has
\* extracted_data and with the payload null, and answered the same text
C28_Witness ==
    /\ Len(formatTexts) = 2
    /\ FormatCall(1).agentId = "agent1"
    /\ FormatCall(1).message # FormatCall(2).message
    /\ FormatCall(1).data = [extracted_data |-> "text"]
    /\ FormatCall(2).data = Null
    /\ formatTexts[1] = formatTexts[2]


\* C29: no two entries of the transcript have the same id, whatever the
\* clock shows when the sends are made and when they complete.
C29_UniqueIds ==
    \A i, j \in 1..Len(messages) :
        i # j => messages[i].id # messages[j].id


\* C30: every upload answered 2xx with a body that parses as JSON, be the
\* parsed value an object with extracted_data, an object without it or
\* null, gives an agent message with success true.
C30_ParsedUploadSucceeds ==
    \A k \in 1..Len(responses) :
        (IsUploadRequest(requests[k]) /\ Parsed(responses[k].outcome)) =>
            AgentMessageOf(k).success = TRUE


(***************************************************************************)
(* Claims about the shape of the transcript and about staged files.        *)
(***************************************************************************)
\* C31: in every transcript a file field occurs on user messages only, an
\* agent field on agent and system messages only, and a success field and
\* a data field on agent messages only.
C31_FieldsFollowRoles ==
    \A i \in 1..Len(messages) :
        LET m == messages[i] IN
        /\ m.type \in {"system", "user", "agent"}
        /\ "file" \in DOMAIN m <=> m.type = "user"
        /\ "agent" \in DOMAIN m <=> m.type \in {"agent", "system"}
        /\ "success" \in DOMAIN m <=> m.type = "agent"
        /\ "data" \in DOMAIN m <=> m.type = "agent"

\* the greeting, a user message with a file and an agent message with a
\* success flag and a payload
C31_Witness ==
    /\ Len(messages) = 3
    /\ messages[1].type = "system"
    /\ messages[2].type = "user"
    /\ messages[2].file = [name |-> "notes.txt"]
    /\ messages[3].type = "agent"
    /\ messages[3].success = TRUE
    /\ messages[3].data = [filename |-> "stored"]


\* C32: the Remove button, pressed while a send is awaited, empties the
\* staged slot and changes neither the awaited call nor the requests, the
\* transcript or the loading flag; the file of every call is the file of
\* its user message, and it is the file of its upload request; and the
\* completion of the send appends one agent message and leaves no file
\* staged.
C32_RemoveDuringSend ==
    [][/\ (lastEvent' = "remove" /\ inflight # <<>>) =>
              /\ selectedFile' = Null
              /\ UNCHANGED <<inflight, requests, messages, isLoading>>
       /\ SendAccepted => Last(inflight').file = selectedFile
       /\ \A k \in 1..Len(requests') :
              /\ messages'[2 * k].file = (CallOf(k).file)'
              /\ IsUploadRequest(requests'[k]) =>
                     requests'[k].body.formData.file = messages'[2 * k].file
       /\ CallSettles =>
              /\ Len(messages') = Len(messages) + 1
              /\ Last(messages').type = "agent"
              /\ selectedFile' = Null]_vars

\* Remove was pressed while the upload of report.pdf is awaited: no file is
\* staged, the call and the user message still have the file
C32_Witness ==
    /\ lastEvent = "remove"
    /\ isLoading
    /\ selectedFile = Null
    /\ Len(inflight) = 1
    /\ inflight[1].file = [name |-> "report.pdf"]
    /\ IsUploadRequest(requests[1])
    /\ Last(messages).file = [name |-> "report.pdf"]


\* the number of transcript entries of a type
CountOf(type) ==
    Cardinality({i \in 1..Len(messages) : messages[i].type = type})

\* C33: isLoading is true exactly when some user message has no agent
\* message after it; the user messages outnumber the agent messages by one
\* while loading and by none while idle; the transcript has one entry for
\* the greeting, two for every completed send and one more while loading.
C33_LoadingMatchesTranscript ==
    /\ isLoading <=>
          \E i \in 1..Len(messages) :
              /\ messages[i].type = "user"
              /\ \A j \in (i + 1)..Len(messages) : messages[j].type # "agent"
    /\ CountOf("user") - CountOf("agent") = IF isLoading THEN 1 ELSE 0
    /\ Len(messages)
          = 1 + 2 * Len(responses) + IF isLoading THEN 1 ELSE 0

\* the second send is awaited after the first has completed
C33_Witness ==
    /\ isLoading
    /\ Len(responses) = 1
    /\ CountOf("user") = 2
    /\ CountOf("agent") = 1
    /\ CountOf("system") = 1


\* C34: every send made with a staged file and a text that is empty after
\* trimming has the target agent1 and uploads the staged file.
C34_BlankTextUploads ==
    \A k \in 1..Len(requests) :
        LET call == CallOf(k) IN
        (trim(call.message) = "" /\ call.file # Null) =>
            /\ call.targetAgent = "agent1"
            /\ IsUploadRequest(requests[k])
            /\ requests[k].body.formData.file = call.file


\* C35: the file of a send is uploaded exactly when the target is agent1;
\* a send with a file and a target other than agent1 makes the general
\* request of its target, whose body does not hold the file, and when it
\* has completed no file is staged.
C35_FileSentOnlyToCollector ==
    \A k \in 1..Len(requests) :
        LET call == CallOf(k)
            target == call.targetAgent
        IN call.file # Null =>
              /\ IsUploadRequest(requests[k]) <=> target = "agent1"
              /\ target # "agent1" =>
                    /\ requests[k].url = AGENT_CONFIGS[target].url
                                             \o GeneralEndpoint[target].path
                    /\ requests[k].method = GeneralEndpoint[target].method
                    /\ IF target = "agent2"
                       THEN requests[k].body = KnowledgeBody(call.message)
                       ELSE requests[k].body = Null
                    /\ k <= Len(responses) => selectedFile = Null

\* a question for the knowledge base was sent with notes.txt staged: the
\* one request is the knowledge search, and after its completion no file is
\* staged
C35_Witness ==
    /\ Len(requests) = 1
    /\ Len(responses) = 1
    /\ responses[1].call.file = [name |-> "notes.txt"]
    /\ responses[1].call.targetAgent = "agent2"
    /\ requests[1].url = "https://g8h3ilcv0k7m.manus.space/api/knowledge/search"
    /\ selectedFile = Null


(***************************************************************************)
(* Claims about keywords that are shadowed.                                *)
(***************************************************************************)
\* the cascade of analyzeIntent without the keywords "last week" and
\* "last month" in the Agent 3 block
analyzeIntentWithoutLastWeek(message) ==
    LET lowerMessage == toLowerCase(message) IN
    \* Agent 1: Web Scraper & Data Collector
    IF \/ includes(lowerMessage, "upload")
       \/ includes(lowerMessage, "scrape")
       \/ includes(lowerMessage, "collect")
       \/ includes(lowerMessage, "file")
       \/ includes(lowerMessage, "attachment")
       \/ includes(lowerMessage, "download")
       \/ includes(lowerMessage, "extract data")
    THEN "agent1"
    \* Agent 2: Knowledge Base Creator
    ELSE IF \/ includes(lowerMessage, "knowledge")
            \/ includes(lowerMessage, "document")
            \/ includes(lowerMessage, "search")
            \/ includes(lowerMessage, "find")
            \/ includes(lowerMessage, "what were")
            \/ includes(lowerMessage, "last")
            \/ includes(lowerMessage, "process for")
            \/ includes(lowerMessage, "how to")
            \/ includes(lowerMessage, "procedure")
            \/ includes(lowerMessage, "incorporated")
            \/ includes(lowerMessage, "added to")
    THEN "agent2"
    \* Agent 3: Database Manager
    ELSE IF \/ includes(lowerMessage, "how many")
            \/ includes(lowerMessage, "sold")
            \/ includes(lowerMessage, "database")
            \/ includes(lowerMessage, "analytics")
            \/ includes(lowerMessage, "report")
            \/ includes(lowerMessage, "count")
            \/ includes(lowerMessage, "statistics")
            \/ includes(lowerMessage, "backup")
    THEN "agent3"
    \* Agent 4: Data Transformer
    ELSE IF \/ includes(lowerMessage, "transform")
            \/ includes(lowerMessage, "convert")
            \/ includes(lowerMessage, "bestbuy")
            \/ includes(lowerMessage, "walmart")
            \/ includes(lowerMessage, "format")
            \/ includes(lowerMessage, "mapping")
            \/ includes(lowerMessage, "template")
    THEN "agent4"
    \* Default to orchestrator for general queries
    ELSE "orchestrator"

\* C36: analyzeIntent returns for every text what the cascade without the
\* keywords "last week" and "last month" returns.
C36_LastWeekNeverDecides ==
    /\ intentResult # Pending =>
          intentResult = analyzeIntentWithoutLastWeek(intentInput)
    /\ recasedResult # Pending =>
          recasedResult = analyzeIntentWithoutLastWeek(recasedInput)

\* a text with the keyword "last week" and no other keyword but "last" was
\* classified agent2
C36_Witness ==
    /\ intentInput = "last week"
    /\ intentResult = "agent2"


(***************************************************************************)
(* Claims about the payload of agent messages.                             *)
(***************************************************************************)
\* C37: the agent message of a dispatch has a data value exactly when its
\* success flag is true: after a rejected fetch, a non-2xx answer or an
\* unparseable body it has success false and no data, and when it has
\* success true its data is the value the body was parsed to.
C37_DataIffSuccess ==
    \A k \in 1..Len(responses) :
        LET o == responses[k].outcome
            m == AgentMessageOf(k)
        IN /\ m.success <=> m.data # Undefined
           /\ (Rejected(o) \/ NonOk(o) \/ Unparseable(o)) =>
                 (m.success = FALSE /\ m.data = Undefined)
           /\ m.success => (Parsed(o) /\ m.data = o.value)

\* the status request of the orchestrator was answered 2xx with the body
\* null, and the agent message has success true and the data null
C37_Witness ==
    /\ Len(responses) = 1
    /\ responses[1].call.targetAgent = "orchestrator"
    /\ Parsed(responses[1].outcome)
    /\ responses[1].outcome.value = Null
    /\ AgentMessageOf(1).success = TRUE
    /\ AgentMessageOf(1).data = Null


(***************************************************************************)
(* Claims about what a handler leaves alone.                               *)
(***************************************************************************)
\* C38: a file selection that delivers no file changes neither the staged
\* file nor the transcript, the text field or the loading flag.
C38_CancelledPickerKeepsFile ==
    [][(lastEvent' = "fileSelect" /\ pickedFile' = Null) =>
           UNCHANGED <<selectedFile, messages, inputValue, isLoading>>]_vars

\* the picker was closed without a file while report.pdf was staged and a
\* text was typed, and both are still there
C38_Witness ==
    /\ lastEvent = "fileSelect"
    /\ pickedFile = Null
    /\ selectedFile = [name |-> "report.pdf"]
    /\ inputValue = "upload file"
    /\ ~isLoading

====
